---- MODULE Spec2Model ----
(***************************************************************************)
(* A model of djvubind's utilities and organizer:                          *)
(*   - utils.split_cmd          (SpecSplit)                                *)
(*   - organizer.Book           (SpecBook)                                 *)
(*   - organizer.Page.get_dpi / is_bitonal on utils.execute (SpecPage)     *)
(*   - Djvubind.organizer.Page.ocr (SpecOcr)                               *)
(*   - utils.ChangeDirectory    (SpecChdir)                                *)
(* Each specification drives one component and leaves the state of the     *)
(* others at its idle value.                                               *)
(***************************************************************************)
EXTENDS Integers, Sequences, FiniteSets, TLC

VARIABLES
    \* ---- utils.split_cmd ----
    argStart, argEnd, argFiles,   \* the arguments as the caller passed them
    start, end, files,            \* the locals of the same names
    buffer, cmds,                 \* the locals buffer and cmds
    pc,                           \* position in split_cmd
    \* ---- organizer.Book ----
    pages,                        \* Book.pages: a sequence of [path, dpi]
    bookDpi,                      \* Book.dpi: <<>> for None, <<d>> for the number d
    diags,                        \* pages the latest Book.get_dpi call printed about
    bookOp,                       \* the latest operation on the book
    \* ---- organizer.Page on utils.execute ----
    image,                        \* what the image tools report about the page's file
    imageAtCall,                  \* image as it was when the latest operation began
    pagePath,                     \* Page.path
    pageDpi,                      \* Page.dpi
    pageBitonal,                  \* Page.bitonal: "None", "True" or "False"
    raised,                       \* the exception the latest operation ended with
    events,                       \* what the latest operation did, in order
    pageOp,                       \* the latest operation on the page
    \* ---- Djvubind.organizer (the earlier Book and Page) ----
    oldPages,                     \* Book.pages: a sequence of [path, bitonal, dpi, text]
    fs,                           \* the files that exist
    ocrPath,                      \* the path of the page the latest Page.ocr ran on
    ocrCreated,                   \* whether that call created its intermediate file
    ocrRaised,                    \* the exception the latest insert_page ended with
    \* ---- utils.ChangeDirectory ----
    cwd,                          \* the process working directory
    objs,                         \* the ChangeDirectory objects: [made, dir, cwd, pwd]
    blocks,                       \* the with-blocks entered and not yet left, innermost last
    cdOp,                         \* the latest operation
    before,                       \* the directory current just before the enter matching the latest exit
    propagated                    \* whether the latest exit let the body's error through

splitVars == <<argStart, argEnd, argFiles, start, end, files, buffer, cmds, pc>>
bookVars == <<pages, bookDpi, diags, bookOp>>
pageVars == <<image, imageAtCall, pagePath, pageDpi, pageBitonal, raised, events, pageOp>>
ocrVars == <<oldPages, fs, ocrPath, ocrCreated, ocrRaised>>
cdVars == <<cwd, objs, blocks, cdOp, before, propagated>>

vars == <<splitVars, bookVars, pageVars, ocrVars, cdVars>>

-----------------------------------------------------------------------------
(***************************************************************************)
(* Strings.  A Python str is modelled as a run-length sequence: a sequence *)
(* of records [ch, n] meaning n copies of character ch, with no empty run  *)
(* and no two adjacent runs of the same character, so that two strings are *)
(* equal exactly when their representations are.  Strings of 32000         *)
(* characters, the real limit, are then a few runs long.                   *)
(***************************************************************************)

\* the string made of n copies of character c
Str(c, n) == IF n = 0 THEN <<>> ELSE <<[ch |-> c, n |-> n]>>

\* len(s)
RECURSIVE StrLen(_)
StrLen(s) == IF s = <<>> THEN 0 ELSE s[1].n + StrLen(Tail(s))

\* a + b
Cat(a, b) ==
    IF a = <<>> THEN b
    ELSE IF b = <<>> THEN a
    ELSE IF a[Len(a)].ch = b[1].ch
         THEN SubSeq(a, 1, Len(a) - 1)
                \o <<[ch |-> b[1].ch, n |-> a[Len(a)].n + b[1].n]>>
                \o Tail(b)
         ELSE a \o b

\* the characters str.rstrip() removes
Whitespace == {" "}

\* s.rstrip()
RECURSIVE RStrip(_)
RStrip(s) ==
    IF s = <<>> THEN s
    ELSE IF s[Len(s)].ch \in Whitespace THEN RStrip(SubSeq(s, 1, Len(s) - 1))
    ELSE s

\* s[k:]  (0 <= k)
RECURSIVE DropChars(_, _)
DropChars(s, k) ==
    IF k = 0 \/ s = <<>> THEN s
    ELSE IF s[1].n <= k THEN DropChars(Tail(s), k - s[1].n)
    ELSE <<[ch |-> s[1].ch, n |-> s[1].n - k]>> \o Tail(s)

\* s[:k]  (0 <= k)
RECURSIVE TakeChars(_, _)
TakeChars(s, k) ==
    IF k = 0 \/ s = <<>> THEN <<>>
    ELSE IF s[1].n <= k THEN Cat(<<s[1]>>, TakeChars(Tail(s), k - s[1].n))
    ELSE <<[ch |-> s[1].ch, n |-> k]>>

Space == Str(" ", 1)
Quote == Str("\"", 1)

-----------------------------------------------------------------------------
(***************************************************************************)
(* utils.split_cmd                                                         *)
(***************************************************************************)

\* the literal 32000 of the fit test
Ceiling == 32000

\* most files in one call
MaxFiles == 3
\* most batches recorded before the model stops following a call; a call
\* that returns records at most one batch per file
MaxCmds == MaxFiles + 2

\* command prefixes: a short command and one as long as the limit itself
Starts == {Str("x", 10), Str("x", 32000)}
\* command suffixes: none, a plain one, one with trailing blanks
Ends == {<<>>, Str("y", 4), Cat(Str("y", 4), Str(" ", 2))}
\* file names; with the short prefix and no suffix two files of 15991
\* characters render to 31999 characters, one of 31990 fits no batch
FileNames == {Str("a", 15991), Str("b", 15991), Str("c", 5), Str("d", 31990)}

RECURSIVE SeqsUpTo(_, _)
SeqsUpTo(S, k) ==
    IF k = 0 THEN {<<>>}
    ELSE LET shorter == SeqsUpTo(S, k - 1)
         IN  shorter \cup {Append(q, x) : q \in {r \in shorter : Len(r) = k - 1}, x \in S}

\* line 161: len(buffer) + len(files[0]) + len(end) + 3 < 32000
FitsIgnoringSuffix(buf, f, e) == StrLen(buf) + StrLen(f) + 3 < Ceiling
Fits(buf, f, e) == StrLen(buf) + StrLen(f) + StrLen(e) + 3 < Ceiling

\* line 162: buffer + ' "' + files.pop(0) + '"'
AddFile(buf, f) == Cat(Cat(Cat(buf, Cat(Space, Quote)), f), Quote)

\* lines 164 and 167: buffer + end.rstrip()
CloseBuffer(buf, e) == Cat(buf, RStrip(e))

otherThanSplit == <<bookVars, pageVars, ocrVars, cdVars>>

\* no ChangeDirectory in use
IdleChdir ==
    /\ cwd = "/" /\ objs = <<>> /\ blocks = <<>>
    /\ cdOp = "none" /\ before = "/" /\ propagated = FALSE

\* no earlier-style book in use
IdleOcr ==
    /\ oldPages = <<>> /\ fs = {} /\ ocrPath = <<>>
    /\ ocrCreated = FALSE /\ ocrRaised = "None"

\* an image file nothing has been asked about
NoImage == [value |-> 0, unit |-> "", onebit |-> FALSE, depth |-> 0, exit |-> 0]

\* no page in use
IdlePage ==
    /\ image = NoImage /\ imageAtCall = NoImage /\ pagePath = ""
    /\ pageDpi = 0 /\ pageBitonal = "None" /\ raised = "None"
    /\ events = <<>> /\ pageOp = "none"

\* no book in use
IdleBook == pages = <<>> /\ bookDpi = <<>> /\ diags = <<>> /\ bookOp = "none"

InitSplit ==
    /\ IdleBook
    /\ IdlePage
    /\ IdleOcr
    /\ IdleChdir
    /\ argStart \in Starts
    /\ argEnd \in Ends
    /\ argFiles \in SeqsUpTo(FileNames, MaxFiles)
    /\ start = argStart
    /\ end = argEnd
    /\ files = argFiles
    /\ buffer = <<>>
    /\ cmds = <<>>
    /\ pc = "entry"

\* lines 156-159
Prepare ==
    /\ pc = "entry"
    /\ cmds' = <<>>
    /\ start' = Cat(start, Space)
    /\ end' = Cat(Space, end)
    /\ buffer' = Cat(start, Space)
    /\ pc' = "loop"
    /\ UNCHANGED <<argStart, argEnd, argFiles, files>>
    /\ UNCHANGED otherThanSplit

\* lines 160-162: the file fits, it is popped off the list into the buffer
LoopAdd ==
    /\ pc = "loop"
    /\ Len(files) > 0
    /\ Fits(buffer, files[1], end)
    /\ buffer' = AddFile(buffer, files[1])
    /\ files' = Tail(files)
    /\ UNCHANGED <<argStart, argEnd, argFiles, start, end, cmds, pc>>
    /\ UNCHANGED otherThanSplit

\* LoopClose, had it popped the file that did not fit
LoopCloseDroppingFile ==
    /\ pc = "loop"
    /\ Len(files) > 0
    /\ ~Fits(buffer, files[1], end)
    /\ Len(cmds) < MaxCmds
    /\ cmds' = Append(cmds, CloseBuffer(buffer, end))
    /\ buffer' = start
    /\ files' = Tail(files)
    /\ UNCHANGED <<argStart, argEnd, argFiles, start, end, pc>>
    /\ UNCHANGED otherThanSplit

\* lines 160, 163-166: the file does not fit, the batch is closed
LoopClose ==
    /\ pc = "loop"
    /\ Len(files) > 0
    /\ ~Fits(buffer, files[1], end)
    /\ Len(cmds) < MaxCmds
    /\ cmds' = Append(cmds, CloseBuffer(buffer, end))
    /\ buffer' = start
    /\ UNCHANGED <<argStart, argEnd, argFiles, start, end, files, pc>>
    /\ UNCHANGED otherThanSplit

\* lines 160, 167-169: the list is exhausted, the last batch is closed
Return ==
    /\ pc = "loop"
    /\ Len(files) = 0
    /\ cmds' = Append(cmds, CloseBuffer(buffer, end))
    /\ buffer' = CloseBuffer(buffer, end)
    /\ pc' = "done"
    /\ UNCHANGED <<argStart, argEnd, argFiles, start, end, files>>
    /\ UNCHANGED otherThanSplit

NextSplit == Prepare \/ LoopAdd \/ LoopClose \/ Return

SpecSplit == InitSplit /\ [][NextSplit]_vars

-----------------------------------------------------------------------------
(***************************************************************************)
(* What a reader of the returned commands sees.                            *)
(***************************************************************************)

\* the prefix and the suffix every returned command is rendered with
RenderedPrefix == Cat(argStart, Space)
RenderedSuffix == RStrip(Cat(Space, argEnd))

\* the part of a command between prefix and suffix
Middle(cmd) ==
    TakeChars(DropChars(cmd, StrLen(RenderedPrefix)),
              StrLen(cmd) - StrLen(RenderedPrefix) - StrLen(RenderedSuffix))

\* index of the first run of quotes in s, 0 when there is none
RECURSIVE FirstQuote(_, _)
FirstQuote(s, i) ==
    IF i > Len(s) THEN 0
    ELSE IF s[i].ch = "\"" THEN i
    ELSE FirstQuote(s, i + 1)

\* the names of a text of the form ( ' "' name '"' )*, names holding no quote;
\* a text of another form yields an empty name, which is no file name
RECURSIVE ParseNames(_)
ParseNames(body) ==
    IF body = <<>> THEN <<>>
    ELSE IF Len(body) >= 4 /\ body[1] = Space[1] /\ body[2] = Quote[1]
         THEN LET rest == SubSeq(body, 3, Len(body))
                  k    == FirstQuote(rest, 1)
              IN  IF k = 0 \/ rest[k].n # 1 THEN << <<>> >>
                  ELSE <<SubSeq(rest, 1, k - 1)>>
                         \o ParseNames(SubSeq(rest, k + 1, Len(rest)))
         ELSE << <<>> >>

\* the quoted file names of one returned command
FilesOf(cmd) ==
    IF /\ StrLen(cmd) >= StrLen(RenderedPrefix) + StrLen(RenderedSuffix)
       /\ TakeChars(cmd, StrLen(RenderedPrefix)) = RenderedPrefix
       /\ DropChars(cmd, StrLen(cmd) - StrLen(RenderedSuffix)) = RenderedSuffix
    THEN ParseNames(Middle(cmd))
    ELSE << <<>> >>

\* the file names of the batches, in batch order
RECURSIVE FilesOfAll(_)
FilesOfAll(cs) == IF cs = <<>> THEN <<>> ELSE FilesOf(cs[1]) \o FilesOfAll(Tail(cs))

\* the command a group of files renders to: prefix, quoted files, suffix
RECURSIVE Quoted(_)
Quoted(g) ==
    IF g = <<>> THEN <<>>
    ELSE Cat(Cat(Cat(Cat(Space, Quote), g[1]), Quote), Quoted(Tail(g)))
Rendered(g) == Cat(Cat(RenderedPrefix, Quoted(g)), RenderedSuffix)

\* a group's rendered command stays under the ceiling
RenderedUnder(g) == StrLen(Rendered(g)) < Ceiling

\* a group's length as the fit test counts it: the suffix with its leading
\* blank and before its trailing blanks are stripped
RECURSIVE QuotedLen(_)
QuotedLen(g) == IF g = <<>> THEN 0 ELSE StrLen(g[1]) + 3 + QuotedLen(Tail(g))
CountedUnder(g) ==
    StrLen(argStart) + 1 + QuotedLen(g) + 1 + StrLen(argEnd) < Ceiling

\* no partition: more groups than there are files
NoParts == MaxFiles + 1

\* the test a group must pass: "rendered" or "counted"
GroupOk(g, test) == IF test = "rendered" THEN RenderedUnder(g) ELSE CountedUnder(g)

\* the fewest consecutive groups of fs that all pass the test, NoParts if none
RECURSIVE MinParts(_, _)
MinParts(fl, test) ==
    IF fl = <<>> THEN 0
    ELSE LET ks == {k \in 1..Len(fl) : GroupOk(SubSeq(fl, 1, k), test)}
             cs == {1 + MinParts(SubSeq(fl, k + 1, Len(fl)), test) : k \in ks}
         IN  IF cs = {} THEN NoParts
             ELSE CHOOSE c \in cs : \A d \in cs : c <= d

\* C1: when split_cmd returns for a non-empty file list, the quoted file
\* names of the returned batches, taken in batch order, are exactly the
\* input list.
C1_BatchesPartitionInput ==
    (pc = "done" /\ argFiles # <<>>) => FilesOfAll(cmds) = argFiles

\* C1 witness: a call that returned three files in more than one batch
C1_Witness ==
    pc = "done" /\ Len(argFiles) = 3 /\ Len(cmds) >= 2 /\ FilesOfAll(cmds) = argFiles

\* C2: every command string split_cmd returns is at most the ceiling long,
\* for every prefix, suffix and file list, the empty list included.
C2_EveryCommandWithinCeiling ==
    pc = "done" => \A i \in 1..Len(cmds) : StrLen(cmds[i]) <= Ceiling

\* whether split_cmd closed some batch although the next file, added to it,
\* would have passed the test
ClosedEarly(test) ==
    \E i \in 1..(Len(cmds) - 1) :
        GroupOk(Append(FilesOf(cmds[i]), FilesOf(cmds[i + 1])[1]), test)

\* C3 as stated: when split_cmd returns, the number of batches is the least
\* number of consecutive groups whose rendered command stays under the
\* ceiling, and no batch was closed although the next file would still
\* have fitted under the ceiling.
C3_FewestRenderedBatches ==
    (pc = "done" /\ argFiles # <<>>) =>
        /\ Len(cmds) = MinParts(argFiles, "rendered")
        /\ ~ClosedEarly("rendered")

\* C3 amended: when split_cmd returns for a non-empty list, the number of
\* batches is the least number of consecutive groups that pass the fit
\* test, which counts the suffix with its leading blank and unstripped, and
\* no batch was closed although the next file would have passed that test.
C3_FewestCountedBatches ==
    (pc = "done" /\ argFiles # <<>>) =>
        /\ Len(cmds) = MinParts(argFiles, "counted")
        /\ ~ClosedEarly("counted")

\* C3 witness: two files that render to a command under the ceiling and
\* are returned in two batches
C3_Witness ==
    /\ pc = "done" /\ Len(argFiles) = 2 /\ Len(cmds) = 2
    /\ RenderedUnder(argFiles) /\ ~CountedUnder(argFiles)

\* C10: split_cmd never closes a batch without consuming, on the next pass,
\* the file that caused the close, and so terminates: no batch closed
\* inside the loop is empty of files.  (The loop reads only buffer, files
\* and end; after closing an empty batch it is back in the state it closed
\* it in, so it closes empty batches for ever.)
C10_NoEmptyBatchClosedInLoop ==
    pc = "loop" => \A i \in 1..Len(cmds) : FilesOf(cmds[i]) # <<>>

-----------------------------------------------------------------------------
(***************************************************************************)
(* organizer.Book (djvubind/organizer.py)                                  *)
(***************************************************************************)

\* most pages in a book
MaxPages == 3

\* image paths and the resolutions a page's dpi attribute takes
Paths == {"p1.tif", "p2.pgm"}
Dpis == {300, 600}

otherThanBook == <<splitVars, pageVars, ocrVars, cdVars>>

\* no split_cmd call in progress
IdleSplit ==
    /\ argStart = <<>> /\ argEnd = <<>> /\ argFiles = <<>>
    /\ start = <<>> /\ end = <<>> /\ files = <<>>
    /\ buffer = <<>> /\ cmds = <<>> /\ pc = "idle"

\* Book.__init__, lines 30-36
InitBook ==
    /\ IdleSplit
    /\ IdlePage
    /\ IdleOcr
    /\ IdleChdir
    /\ pages = <<>>
    /\ bookDpi = <<>>
    /\ diags = <<>>
    /\ bookOp = "none"

\* Page.__init__, lines 81-87
NewPage(path) == [path |-> path, dpi |-> 0]

\* Book.insert_page, lines 53-59
InsertPage(path) ==
    /\ Len(pages) < MaxPages
    /\ pages' = Append(pages, NewPage(path))
    /\ bookOp' = "insert_page"
    /\ UNCHANGED <<bookDpi, diags>>
    /\ UNCHANGED otherThanBook

\* the page just inserted is inspected and a resolution is stored in its
\* dpi attribute (lines 96 and 98); a page that is never inspected keeps 0
SetPageDpi(d) ==
    /\ bookOp = "insert_page"
    /\ pages' = [pages EXCEPT ![Len(pages)].dpi = d]
    /\ bookOp' = "set_page_dpi"
    /\ UNCHANGED <<bookDpi, diags>>
    /\ UNCHANGED otherThanBook

\* the loop of Book.get_dpi, had it kept the first value it saw
RECURSIVE DeriveDpiFirstWins(_, _, _, _)
DeriveDpiFirstWins(ps, i, d, out) ==
    IF i > Len(ps) THEN [dpi |-> d, diags |-> out]
    ELSE DeriveDpiFirstWins(ps, i + 1,
                   IF d = <<>> THEN <<ps[i].dpi>> ELSE d,
                   IF d # <<>> /\ <<ps[i].dpi>> # d THEN Append(out, i) ELSE out)

\* the loop of Book.get_dpi, lines 44-49, from page i on with self.dpi = d:
\* the final self.dpi and the pages a diagnostic was printed for
RECURSIVE DeriveDpi(_, _, _, _)
DeriveDpi(ps, i, d, out) ==
    IF i > Len(ps) THEN [dpi |-> d, diags |-> out]
    ELSE DeriveDpi(ps, i + 1,
                   <<ps[i].dpi>>,
                   IF d # <<>> /\ <<ps[i].dpi>> # d THEN Append(out, i) ELSE out)

\* Book.get_dpi, lines 38-51
BookGetDpi ==
    /\ LET r == DeriveDpi(pages, 1, bookDpi, <<>>)
       IN  bookDpi' = r.dpi /\ diags' = r.diags
    /\ bookOp' = "get_dpi"
    /\ UNCHANGED pages
    /\ UNCHANGED otherThanBook

NextBook ==
    \/ \E path \in Paths : InsertPage(path)
    \/ \E d \in Dpis : SetPageDpi(d)
    \/ BookGetDpi

SpecBook == InitBook /\ [][NextBook]_vars

\* the pages after the first whose dpi differs from the page before them
RECURSIVE AdjacentChanges(_, _)
AdjacentChanges(ps, i) ==
    IF i > Len(ps) THEN <<>>
    ELSE (IF i > 1 /\ ps[i].dpi # ps[i - 1].dpi THEN <<i>> ELSE <<>>)
           \o AdjacentChanges(ps, i + 1)

\* C4: right after a Book.get_dpi call on a book with at least one page,
\* whatever calls came before, Book.dpi is the dpi of the last page.
C4_LastPageWins ==
    (bookOp = "get_dpi" /\ pages # <<>>) => bookDpi = <<pages[Len(pages)].dpi>>

\* C4 witness: a get_dpi call that printed a mismatch and kept the last
\* page's dpi, which is not the first page's
C4_Witness ==
    /\ bookOp = "get_dpi" /\ Len(pages) = 3 /\ diags # <<>>
    /\ pages[1].dpi # pages[3].dpi /\ pages[2].dpi # pages[3].dpi
    /\ bookDpi = <<pages[3].dpi>>

\* C5: in every Book.get_dpi call, the first or a later one, the pages that
\* get a diagnostic are exactly the pages after the first whose dpi differs
\* from the page before them.
C5_DiagnosticPerAdjacentChange ==
    bookOp = "get_dpi" => diags = AdjacentChanges(pages, 1)

-----------------------------------------------------------------------------
(***************************************************************************)
(* organizer.Page (djvubind/organizer.py) on utils.execute                 *)
(*                                                                         *)
(* The image file is what the external tools report about it: the          *)
(* resolution value in hundredths and its unit token, whether identify's   *)
(* summary line holds "1-bit", the depth %z prints, and the exit status of *)
(* identify on the file.                                                    *)
(***************************************************************************)

otherThanPage == <<splitVars, bookVars, ocrVars, cdVars>>

\* resolution values in hundredths: "72", "100", "300" and "28.35"
Values == {7200, 10000, 30000, 2835}
Units == {"PixelsPerInch", "PixelsPerCentimeter", "Undefined"}
Depths == {1, 8}
ExitCodes == {0, 1}
PagePaths == {"scan.tif", "scan.pgm"}

Images ==
    [value : Values, unit : Units, onebit : BOOLEAN, depth : Depths, exit : ExitCodes]

\* the parameters utils.execute declares, line 180: def execute(cmd)
ExecuteParams == {"cmd"}

\* what a command prints on the image
Output(tool, img) ==
    CASE tool = "identify -ping -format %x" -> <<img.value, img.unit>>
      [] tool = "identify -ping"            -> <<img.onebit>>
      [] tool = "identify -ping -format %z" -> <<img.depth>>
      [] OTHER                              -> <<>>

\* the exit status of a command on the image
ExitOf(tool, img) == IF tool = "mogrify -colorspace gray -depth 1" THEN 0 ELSE img.exit

\* utils.execute(cmd, **kwargs), lines 180-186: Python binds the arguments
\* to the parameters first, then check_output runs the command and raises
\* on a non-zero exit
Execute(tool, kwargs, img) ==
    IF ~(kwargs \subseteq ExecuteParams)
    THEN [exc |-> "TypeError", ran |-> FALSE, out |-> <<>>]
    ELSE IF ExitOf(tool, img) # 0
    THEN [exc |-> "CalledProcessError", ran |-> TRUE, out |-> <<>>]
    ELSE [exc |-> "None", ran |-> TRUE, out |-> Output(tool, img)]

\* round(x) of x = k / 10000, ties to the even integer
RoundDiv(k) ==
    LET q == k \div 10000
        r == k % 10000
    IN  IF r * 2 < 10000 THEN q
        ELSE IF r * 2 > 10000 THEN q + 1
        ELSE IF q % 2 = 0 THEN q ELSE q + 1

\* lines 95-101 on the tokens of the output: the dpi stored, or the error
ParseResolution(resolution, dpi) ==
    IF Len(resolution) < 2 THEN [exc |-> "IndexError", dpi |-> dpi]
    ELSE IF resolution[2] = "PixelsPerInch"
    THEN IF resolution[1] % 100 = 0
         THEN [exc |-> "None", dpi |-> resolution[1] \div 100]
         ELSE [exc |-> "ValueError", dpi |-> dpi]
    ELSE IF resolution[2] = "PixelsPerCentimeter"
    THEN [exc |-> "None", dpi |-> RoundDiv(resolution[1] * 254)]
    ELSE [exc |-> "ValueError", dpi |-> dpi]

InitPage ==
    /\ IdleSplit
    /\ IdleBook
    /\ IdleOcr
    /\ IdleChdir
    /\ image \in Images
    /\ imageAtCall = image
    /\ pagePath \in PagePaths
    /\ pageDpi = 0
    /\ pageBitonal = "None"
    /\ raised = "None"
    /\ events = <<>>
    /\ pageOp = "none"

\* Page.get_dpi, lines 89-101
PageGetDpi ==
    /\ LET r == Execute("identify -ping -format %x", {"capture"}, image)
           p == ParseResolution(r.out, pageDpi)
       IN  /\ events' = IF r.ran THEN <<"identify -ping -format %x">> ELSE <<>>
           /\ raised' = IF r.exc # "None" THEN r.exc ELSE p.exc
           /\ pageDpi' = IF r.exc # "None" THEN pageDpi ELSE p.dpi
    /\ imageAtCall' = image
    /\ pageOp' = "get_dpi"
    /\ UNCHANGED <<image, pagePath, pageBitonal>>
    /\ UNCHANGED otherThanPage

\* Page.is_bitonal, lines 103-120, as the outcome of its calls in order:
\* [exc, bitonal, events, depth]
IsBitonalRun(img, bitonal, path) ==
    LET r1 == Execute("identify -ping", {"capture"}, img)
        r2 == Execute("identify -ping -format %z", {"capture"}, img)
        r3 == Execute("mogrify -colorspace gray -depth 1", {}, img)
        e1 == IF r1.ran THEN <<"identify -ping">> ELSE <<>>
        e2 == e1 \o (IF r2.ran THEN <<"identify -ping -format %z">> ELSE <<>>)
        e3 == e2 \o (IF r3.ran THEN <<"mogrify -colorspace gray -depth 1">> ELSE <<>>)
        warn(ev) == IF path = "scan.pgm" THEN Append(ev, "warn pgm") ELSE ev
    IN  IF r1.exc # "None"
        THEN [exc |-> r1.exc, bitonal |-> bitonal, events |-> e1, depth |-> img.depth]
        ELSE IF ~r1.out[1]
        THEN [exc |-> "None", bitonal |-> "False",
              events |-> Append(e1, "bitonal = False"), depth |-> img.depth]
        ELSE IF r2.exc # "None"
        THEN [exc |-> r2.exc, bitonal |-> bitonal, events |-> e2, depth |-> img.depth]
        ELSE IF r2.out[1] = 1
        THEN [exc |-> "None", bitonal |-> "True",
              events |-> warn(Append(e2, "bitonal = True")), depth |-> img.depth]
        ELSE IF r3.exc # "None"
        THEN [exc |-> r3.exc, bitonal |-> bitonal, events |-> e3, depth |-> img.depth]
        ELSE [exc |-> "None", bitonal |-> "True",
              events |-> warn(Append(e3, "bitonal = True")), depth |-> 1]

\* Page.is_bitonal, lines 103-120
PageIsBitonal ==
    /\ LET r == IsBitonalRun(image, pageBitonal, pagePath)
       IN  /\ raised' = r.exc
           /\ pageBitonal' = r.bitonal
           /\ events' = r.events
           /\ image' = [image EXCEPT !.depth = r.depth]
    /\ imageAtCall' = image
    /\ pageOp' = "is_bitonal"
    /\ UNCHANGED <<pagePath, pageDpi>>
    /\ UNCHANGED otherThanPage

NextPage == PageGetDpi \/ PageIsBitonal

SpecPage == InitPage /\ [][NextPage]_vars

\* the position of event e in the latest operation's events, 0 if absent
RECURSIVE IndexOf(_, _, _)
IndexOf(ev, e, i) ==
    IF i > Len(ev) THEN 0 ELSE IF ev[i] = e THEN i ELSE IndexOf(ev, e, i + 1)

Mogrified == IndexOf(events, "mogrify -colorspace gray -depth 1", 1) # 0

\* C7: when identify exits zero, Page.get_dpi ends in the outcome its
\* output fixes: PixelsPerInch stores the value, PixelsPerCentimeter stores
\* the value times 2.54 rounded (100 gives 254), any other unit raises the
\* unit error (a ValueError) and leaves dpi as it was (0, the constructor's
\* value: nothing but get_dpi stores a dpi).
C7_DpiFollowsIntrospection ==
    (pageOp = "get_dpi" /\ imageAtCall.exit = 0 /\ imageAtCall.value % 100 = 0) =>
        /\ imageAtCall.unit = "PixelsPerInch" =>
              raised = "None" /\ pageDpi = imageAtCall.value \div 100
        /\ imageAtCall.unit = "PixelsPerCentimeter" =>
              /\ raised = "None"
              /\ pageDpi = RoundDiv(imageAtCall.value * 254)
              /\ (imageAtCall.value = 10000 => pageDpi = 254)
        /\ imageAtCall.unit \notin {"PixelsPerInch", "PixelsPerCentimeter"} =>
              raised = "ValueError" /\ pageDpi = 0

\* C8: when identify exits zero, Page.is_bitonal issues mogrify exactly when
\* the summary holds 1-bit and the depth is above 1, and before bitonal is
\* set to True; without 1-bit it sets bitonal to False and issues no
\* mogrify; after a normal return bitonal is True or False.
C8_BitonalFollowsIntrospection ==
    (pageOp = "is_bitonal" /\ imageAtCall.exit = 0) =>
        /\ Mogrified <=> (imageAtCall.onebit /\ imageAtCall.depth > 1)
        /\ Mogrified =>
              /\ pageBitonal = "True"
              /\ IndexOf(events, "mogrify -colorspace gray -depth 1", 1)
                   < IndexOf(events, "bitonal = True", 1)
        /\ ~imageAtCall.onebit => pageBitonal = "False" /\ ~Mogrified
        /\ raised = "None" => pageBitonal \in {"True", "False"}

-----------------------------------------------------------------------------
(***************************************************************************)
(* Djvubind.organizer (Djvubind/organizer.py): the earlier Book, whose     *)
(* Page inspects its image and extracts its text as it is constructed.     *)
(* A path is the sequence of its parts between dots, so path + '.tif' is   *)
(* the path with one more part and path.split('.')[-1] is its last part.   *)
(***************************************************************************)

otherThanOcr == <<splitVars, bookVars, pageVars, cdVars>>

\* most pages in an earlier-style book
MaxOldPages == 2

OldPaths ==
    { <<"a", "jpg">>, <<"a", "jpeg">>, <<"a", "tiff">>, <<"a", "tif">>,
      <<"a", "png">>, <<"b", "jpg">> }
\* what text recognition does on a file: return a text or fail
Recognitions == {"text", "raise"}

\* self.path + '.tif'
Intermediate(path) == Append(path, "tif")

\* Djvubind.utils.execute: a non-zero exit ends the program's work on the
\* call (the earlier runner exited), a zero exit returns the output
OldExecute(exit, out) ==
    IF exit # 0 THEN [exc |-> "SystemExit", out |-> <<>>]
    ELSE [exc |-> "None", out |-> out]

\* Djvubind.ocr.get_text on a file: the recognized text, or a failure
GetText(file, existing, recog) ==
    IF file \notin existing \/ recog = "raise"
    THEN [exc |-> "OcrError", text |-> ""]
    ELSE [exc |-> "None", text |-> recog]

\* Page.ocr, lines 54-68: [exc, text, fs, created]
Ocr(path, existing, convertExit, recog) ==
    LET ext == path[Len(path)]
        tmp == Intermediate(path)
        conv == OldExecute(convertExit, <<>>)
        made == existing \cup {tmp}
        viaTmp == GetText(tmp, made, recog)
        direct == GetText(path, existing, recog)
    IN  IF ext \in {"jpg", "jpeg"}
        THEN IF conv.exc # "None"
             THEN [exc |-> conv.exc, text |-> "", fs |-> existing, created |-> FALSE]
             ELSE IF viaTmp.exc # "None"
             THEN [exc |-> viaTmp.exc, text |-> "", fs |-> made, created |-> TRUE]
             ELSE [exc |-> "None", text |-> viaTmp.text, fs |-> made \ {tmp},
                   created |-> TRUE]
        ELSE IF ext = "tiff"
        THEN IF viaTmp.exc # "None"
             THEN [exc |-> viaTmp.exc, text |-> "", fs |-> made, created |-> TRUE]
             ELSE [exc |-> "None", text |-> viaTmp.text, fs |-> made \ {tmp},
                   created |-> TRUE]
        ELSE IF ext = "tif"
        THEN [exc |-> direct.exc, text |-> direct.text, fs |-> existing, created |-> FALSE]
        ELSE [exc |-> "None", text |-> "", fs |-> existing, created |-> FALSE]

\* Book.__init__, lines 24-30; the image files to bind exist
InitOcr ==
    /\ IdleSplit
    /\ IdleBook
    /\ IdlePage
    /\ IdleChdir
    /\ oldPages = <<>>
    /\ fs = OldPaths
    /\ ocrPath = <<>>
    /\ ocrCreated = FALSE
    /\ ocrRaised = "None"

\* Book.insert_page, lines 32-34, with Page.__init__, lines 37-42: the
\* page is appended when is_bitonal, get_dpi and ocr have all returned
OldInsertPage(path, identifyExit, depth, dpi, convertExit, recog) ==
    /\ Len(oldPages) < MaxOldPages
    /\ LET z == OldExecute(identifyExit, <<depth>>)
           x == OldExecute(identifyExit, <<dpi>>)
           o == Ocr(path, fs, convertExit, recog)
       IN  IF z.exc # "None"
           THEN /\ ocrRaised' = z.exc
                /\ UNCHANGED <<oldPages, fs, ocrPath, ocrCreated>>
           ELSE /\ ocrRaised' = o.exc
                /\ fs' = o.fs
                /\ ocrPath' = path
                /\ ocrCreated' = o.created
                /\ oldPages' =
                     IF o.exc # "None" THEN oldPages
                     ELSE Append(oldPages, [path |-> path, bitonal |-> (z.out[1] = 1),
                                            dpi |-> x.out[1], text |-> o.text])
    /\ UNCHANGED otherThanOcr

NextOcr ==
    \E path \in OldPaths, identifyExit \in ExitCodes, depth \in Depths, dpi \in Dpis,
       convertExit \in ExitCodes, recog \in Recognitions :
        OldInsertPage(path, identifyExit, depth, dpi, convertExit, recog)

SpecOcr == InitOcr /\ [][NextOcr]_vars

\* C6: once Page.ocr has finished, by returning or by a failure of text
\* recognition, the intermediate file it created no longer exists.
C6_IntermediateRemoved ==
    ocrCreated => Intermediate(ocrPath) \notin fs

-----------------------------------------------------------------------------
(***************************************************************************)
(* utils.ChangeDirectory (djvubind/utils.py), used by one thread: objects  *)
(* are constructed, with-blocks on distinct objects are entered and left   *)
(* innermost first, and the working directory is also changed by other     *)
(* code.  Directories are absolute and exist, so os.getcwd() after         *)
(* os.chdir(d) is d.                                                       *)
(***************************************************************************)

otherThanChdir == <<splitVars, bookVars, pageVars, ocrVars>>

\* most ChangeDirectory objects
MaxObjs == 2

Dirs == {"/a", "/b", "/c"}

NotMade == [made |-> FALSE, dir |-> "", cwd |-> "", pwd |-> ""]

InitChdir ==
    /\ IdleSplit
    /\ IdleBook
    /\ IdlePage
    /\ IdleOcr
    /\ cwd \in Dirs
    /\ objs = [o \in 1..MaxObjs |-> NotMade]
    /\ blocks = <<>>
    /\ cdOp = "none"
    /\ before = cwd
    /\ propagated = FALSE

\* ChangeDirectory.__init__, lines 42-45
Construct(o, d) ==
    /\ ~objs[o].made
    /\ objs' = [objs EXCEPT ![o] = [made |-> TRUE, dir |-> d, cwd |-> cwd, pwd |-> cwd]]
    /\ cdOp' = "init"
    /\ UNCHANGED <<cwd, blocks, before, propagated>>
    /\ UNCHANGED otherThanChdir

\* os.chdir by code other than ChangeDirectory
Chdir(d) ==
    /\ cwd' = d
    /\ cdOp' = "chdir"
    /\ UNCHANGED <<objs, blocks, before, propagated>>
    /\ UNCHANGED otherThanChdir

\* ChangeDirectory.__enter__, lines 66-70
Enter(o) ==
    /\ objs[o].made
    /\ \A i \in 1..Len(blocks) : blocks[i].obj # o
    /\ objs' = [objs EXCEPT ![o].pwd = objs[o].cwd, ![o].cwd = objs[o].dir]
    /\ cwd' = objs[o].dir
    /\ blocks' = Append(blocks, [obj |-> o, before |-> cwd])
    /\ cdOp' = "enter"
    /\ UNCHANGED <<before, propagated>>
    /\ UNCHANGED otherThanChdir

\* ChangeDirectory.__exit__, lines 72-74, of the innermost block, whose
\* body returned or raised; __exit__ returns None, so an error goes on
Exit(bodyRaised) ==
    /\ blocks # <<>>
    /\ LET b == blocks[Len(blocks)]
       IN  /\ cwd' = objs[b.obj].pwd
           /\ objs' = [objs EXCEPT ![b.obj].cwd = objs[b.obj].pwd]
           /\ before' = b.before
    /\ blocks' = SubSeq(blocks, 1, Len(blocks) - 1)
    /\ propagated' = bodyRaised
    /\ cdOp' = "exit"
    /\ UNCHANGED otherThanChdir

NextChdir ==
    \/ \E o \in 1..MaxObjs, d \in Dirs : Construct(o, d)
    \/ \E d \in Dirs : Chdir(d)
    \/ \E o \in 1..MaxObjs : Enter(o)
    \/ \E bodyRaised \in BOOLEAN : Exit(bodyRaised)

SpecChdir == InitChdir /\ [][NextChdir]_vars

\* C9: each exit leaves the working directory equal to the directory that
\* was current just before the matching enter, also when the directory
\* changed between construction and enter and when the body raised.
C9_ExitRestoresDirectoryBeforeEnter ==
    cdOp = "exit" => cwd = before

====
